---- MODULE Spec2Model ----
(***************************************************************************)
(* Model of main.py: a text task list is loaded into a TaskSet, validated  *)
(* (durations, self-dependencies, dangling dependencies, cycles), ordered  *)
(* topologically and evaluated for its critical-path runtime.              *)
(*                                                                         *)
(* A Task is a record [name, duration_seconds, deps].  A Python dict keeps *)
(* insertion order, so ts.tasks is modelled as a sequence of Tasks with    *)
(* pairwise distinct names; ts.order is a sequence of names.  Durations    *)
(* are integers (float arithmetic on small integers is exact).  A call     *)
(* result carries the exception it raised, if any, in its field exc.       *)
(***************************************************************************)
EXTENDS Integers, Sequences, FiniteSets, TLC

\* ------------------------------------------------------------------ bounds
\* Pool of task names.
NameSeq == <<"A", "B", "C">>

\* Largest duration of a task of the inputs.
MaxDur == 1

\* Largest number of lines of a task file.
MaxLines == 2

Names == {NameSeq[i] : i \in DOMAIN NameSeq}

Durations == {-1} \cup (0 .. MaxDur)

Range(s) == {s[i] : i \in DOMAIN s}

NoDup(s) == \A i, j \in DOMAIN s : i # j => s[i] # s[j]

\* ------------------------------------------------------------ Task, TaskSet
Task(n, dur, ds) == [name |-> n, duration_seconds |-> dur, deps |-> ds]

\* dict operations on the insertion-ordered mapping name -> Task
Keys(tasks) == [i \in DOMAIN tasks |-> tasks[i].name]

Has(tasks, n) == \E i \in DOMAIN tasks : tasks[i].name = n

Get(tasks, n) == tasks[CHOOSE i \in DOMAIN tasks : tasks[i].name = n]

\* by_name[task.name] = task: a new key goes last, a known key keeps its place
Put(tasks, t) ==
  IF Has(tasks, t.name)
  THEN [i \in DOMAIN tasks |-> IF tasks[i].name = t.name THEN t ELSE tasks[i]]
  ELSE Append(tasks, t)

TaskSet(tasks, order) == [tasks |-> tasks, order |-> order]

\* ------------------------------------------------------------------ parsing
RECURSIVE DedupTokens(_, _)
DedupTokens(tokens, ordered) ==
  IF tokens = <<>> THEN ordered
  ELSE LET dep == Head(tokens) IN
       DedupTokens(Tail(tokens),
                   IF dep # "" /\ dep \notin Range(ordered)
                   THEN Append(ordered, dep) ELSE ordered)

\* fields: <<name, duration, dependency tokens...>>, each already stripped
parse_deps(fields) ==
  IF Len(fields) < 3 THEN <<>>
  ELSE LET toks == SubSeq(fields, 3, Len(fields)) IN
       IF toks = <<"">> \/ toks = <<"-">> THEN <<>>
       ELSE DedupTokens(toks, <<>>)

\* line: [kind |-> "blank" | "comment" | "task", fields |-> ...]; the result
\* is [none |-> TRUE] for a skipped line (Python's None), else the Task.
parse_task_line(line) ==
  IF line.kind # "task"
  THEN [none |-> TRUE, task |-> Task("", 0, <<>>)]
  ELSE [none |-> FALSE,
        task |-> Task(line.fields[1], line.fields[2], parse_deps(line.fields))]

\* ------------------------------------------------------------ validate_tasks
WHITE == 0
GRAY == 1
BLACK == 2

Problem(k, t, d, p) == [kind |-> k, task |-> t, dep |-> d, path |-> p]

RECURSIVE DepChecks(_, _, _, _)
DepChecks(tasks, t, i, errors) ==
  IF i > Len(t.deps) THEN errors
  ELSE LET d == t.deps[i]
           e1 == IF d = t.name
                 THEN Append(errors, Problem("self", t.name, "", <<>>))
                 ELSE errors
           e2 == IF ~Has(tasks, d)
                 THEN Append(e1, Problem("dangling", t.name, d, <<>>))
                 ELSE e1
       IN DepChecks(tasks, t, i + 1, e2)

RECURSIVE BasicChecks(_, _, _)
BasicChecks(tasks, k, errors) ==
  IF k > Len(tasks) THEN errors
  ELSE LET t == tasks[k]
           e1 == IF t.duration_seconds < 0
                 THEN Append(errors, Problem("negative", t.name, "", <<>>))
                 ELSE errors
       IN BasicChecks(tasks, k + 1, DepChecks(tasks, t, 1, e1))

\* stack.index(v): the first position of v
Index(stack, v) == CHOOSE i \in DOMAIN stack :
                      stack[i] = v /\ \A j \in 1 .. (i - 1) : stack[j] # v

\* The traversal state st: [color, stack, errors, ok, exc]; ok is the value
\* dfs returns, exc the exception that left it ("" when none).
RECURSIVE dfs(_, _, _), dfsDeps(_, _, _, _)

\* Faulty variant of dfsDeps: a two-colour traversal that takes every
\* visited dependency, finished or not, for one on the current path.
dfsDepsTwoColour(tasks, u, i, st) ==
  LET deps == Get(tasks, u).deps IN
  IF i > Len(deps)
  THEN [st EXCEPT !.color[u] = BLACK,
                  !.stack = SubSeq(@, 1, Len(@) - 1),
                  !.ok = TRUE]
  ELSE LET v == deps[i] IN
       IF v \notin DOMAIN st.color
       THEN [st EXCEPT !.exc = "KeyError", !.ok = FALSE]
       ELSE IF st.color[v] = WHITE
       THEN LET r == dfs(tasks, v, st) IN
            IF r.exc # "" \/ ~r.ok THEN [r EXCEPT !.ok = FALSE]
            ELSE dfsDeps(tasks, u, i + 1, r)
       ELSE IF v \notin Range(st.stack)
            THEN [st EXCEPT !.exc = "ValueError", !.ok = FALSE]
            ELSE [st EXCEPT
                    !.errors = Append(@, Problem("cycle", "", "",
                        SubSeq(st.stack, Index(st.stack, v), Len(st.stack))
                          \o <<v>>)),
                    !.ok = FALSE]

dfsDeps(tasks, u, i, st) ==
  LET deps == Get(tasks, u).deps IN
  IF i > Len(deps)
  THEN [st EXCEPT !.color[u] = BLACK,
                  !.stack = SubSeq(@, 1, Len(@) - 1),
                  !.ok = TRUE]
  ELSE LET v == deps[i] IN
       IF v \notin DOMAIN st.color
       THEN [st EXCEPT !.exc = "KeyError", !.ok = FALSE]
       ELSE IF st.color[v] = WHITE
       THEN LET r == dfs(tasks, v, st) IN
            IF r.exc # "" \/ ~r.ok THEN [r EXCEPT !.ok = FALSE]
            ELSE dfsDeps(tasks, u, i + 1, r)
       ELSE IF st.color[v] = GRAY
       THEN IF v \notin Range(st.stack)
            THEN [st EXCEPT !.exc = "ValueError", !.ok = FALSE]
            ELSE [st EXCEPT
                    !.errors = Append(@, Problem("cycle", "", "",
                        SubSeq(st.stack, Index(st.stack, v), Len(st.stack))
                          \o <<v>>)),
                    !.ok = FALSE]
       ELSE dfsDeps(tasks, u, i + 1, st)

dfs(tasks, u, st) ==
  dfsDeps(tasks, u, 1, [st EXCEPT !.color[u] = GRAY, !.stack = Append(@, u)])

\* for name in ts.tasks: if color[name] == WHITE: dfs(name, [])
RECURSIVE Roots(_, _, _)
Roots(tasks, k, st) ==
  IF k > Len(tasks) \/ st.exc # "" THEN st
  ELSE LET name == tasks[k].name IN
       IF st.color[name] = WHITE
       THEN Roots(tasks, k + 1, dfs(tasks, name, [st EXCEPT !.stack = <<>>]))
       ELSE Roots(tasks, k + 1, st)

\* The result of a call: state "returned" or "raised"
validate_tasks(ts) ==
  LET st0 == [color |-> [n \in Range(Keys(ts.tasks)) |-> WHITE],
              stack |-> <<>>,
              errors |-> BasicChecks(ts.tasks, 1, <<>>),
              ok |-> TRUE,
              exc |-> ""]
      st == Roots(ts.tasks, 1, st0)
  IN IF st.exc # ""
     THEN [state |-> "raised", exc |-> st.exc, errors |-> <<>>]
     ELSE [state |-> "returned", exc |-> "", errors |-> st.errors]

\* ---------------------------------------------------------------- topo_order
\* Faulty variant of Indegrees: indeg[d] += 1, counting the dependents of a
\* task instead of its dependencies.
IndegreesOfDependents(tasks) ==
  [n \in Range(Keys(tasks)) |->
     Cardinality({k \in DOMAIN tasks : n \in Range(tasks[k].deps)})]

\* indeg[t.name] += 1 for every dependency t declares
Indegrees(tasks) ==
  [n \in Range(Keys(tasks)) |-> Len(Get(tasks, n).deps)]

\* adj_rev[d]: t.name appended once per occurrence of d in t.deps, tasks in
\* dict order
RECURSIVE Dependents(_, _, _)
Dependents(tasks, d, k) ==
  IF k > Len(tasks) THEN <<>>
  ELSE LET hits == SelectSeq(tasks[k].deps, LAMBDA x : x = d) IN
       [i \in 1 .. Len(hits) |-> tasks[k].name] \o Dependents(tasks, d, k + 1)

AdjRev(tasks) == [n \in Range(Keys(tasks)) |-> Dependents(tasks, n, 1)]

\* Faulty variant of Seed: the worklist starts with every task.
SeedEveryTask(tasks, indeg) == Keys(tasks)

\* q = deque([n for n, deg in indeg.items() if deg == 0])
Seed(tasks, indeg) == SelectSeq(Keys(tasks), LAMBDA n : indeg[n] = 0)

\* for v in adj_rev[u]: indeg[v] -= 1; if indeg[v] == 0: q.append(v)
RECURSIVE Relax(_, _, _, _)

\* Faulty variant of Relax: q.appendleft(v), a LIFO worklist.
RelaxLifo(vs, i, indeg, q) ==
  IF i > Len(vs) THEN [indeg |-> indeg, q |-> q]
  ELSE LET v == vs[i]
           ind == [indeg EXCEPT ![v] = @ - 1]
       IN Relax(vs, i + 1, ind, IF ind[v] = 0 THEN <<v>> \o q ELSE q)

Relax(vs, i, indeg, q) ==
  IF i > Len(vs) THEN [indeg |-> indeg, q |-> q]
  ELSE LET v == vs[i]
           ind == [indeg EXCEPT ![v] = @ - 1]
       IN Relax(vs, i + 1, ind, IF ind[v] = 0 THEN Append(q, v) ELSE q)

\* while q: u = q.popleft(); order.append(u); ...
RECURSIVE Kahn(_, _, _, _)
Kahn(adj, indeg, q, order) ==
  IF q = <<>> THEN order
  ELSE LET u == Head(q)
           r == Relax(adj[u], 1, indeg, Tail(q))
       IN Kahn(adj, r.indeg, r.q, Append(order, u))

\* adj_rev[d].append(...) raises KeyError for a dependency that is no task
Dangling(tasks) ==
  \E k \in DOMAIN tasks : \E i \in DOMAIN tasks[k].deps :
     ~Has(tasks, tasks[k].deps[i])

topo_order(ts) ==
  IF Dangling(ts.tasks)
  THEN [state |-> "raised", exc |-> "KeyError", order |-> <<>>]
  ELSE LET indeg == Indegrees(ts.tasks) IN
       [state |-> "returned", exc |-> "",
        order |-> Kahn(AdjRev(ts.tasks), indeg, Seed(ts.tasks, indeg), <<>>)]

\* ---------------------------------------------------- expected_total_runtime
Max(S) == CHOOSE x \in S : \A y \in S : y <= x

\* for n in order: es[n], ef[n] from the dependencies' ef
RECURSIVE Propagate(_, _, _, _, _)
Propagate(tasks, order, k, es, ef) ==
  IF k > Len(order) THEN [es |-> es, ef |-> ef]
  ELSE LET n == order[k]
           t == Get(tasks, n)
           start == IF t.deps # <<>>
                    THEN Max({ef[t.deps[i]] : i \in DOMAIN t.deps})
                    ELSE 0
       IN Propagate(tasks, order, k + 1,
                    [es EXCEPT ![n] = start],
                    [ef EXCEPT ![n] = start + t.duration_seconds])

NoTimes == [n \in {} |-> 0]

expected_total_runtime(ts) ==
  LET to == topo_order(ts)
      keys == Range(Keys(ts.tasks))
      zero == [n \in keys |-> 0]
      r == Propagate(ts.tasks, to.order, 1, zero, zero)
  IN IF to.state = "raised"
     THEN [state |-> "raised", exc |-> to.exc, makespan |-> 0,
           es |-> NoTimes, ef |-> NoTimes]
     ELSE IF keys = {}
     THEN [state |-> "raised", exc |-> "ValueError", makespan |-> 0,
           es |-> NoTimes, ef |-> NoTimes]
     ELSE [state |-> "returned", exc |-> "",
           makespan |-> Max({r.ef[n] : n \in keys}),
           es |-> r.es, ef |-> r.ef]

\* ------------------------------------------------------------------- inputs
\* Dependency lists as parse_deps leaves them: no empty and no repeated name
DepSeqs ==
  {s \in UNION {[1 .. k -> Names] : k \in 0 .. Len(NameSeq)} : NoDup(s)}

\* The first n names of a name sequence, each with the duration and the
\* dependency list f gives it, declared in that order.  The code only
\* compares names, so naming the i-th declared task names[i] covers, up to
\* renaming, every choice of distinct names.
MkTaskSet(names, n, f) ==
  TaskSet([i \in 1 .. n |-> Task(names[i], f[i][1], f[i][2])],
          [i \in 1 .. n |-> names[i]])

\* Four tasks of duration 1 with up to two dependencies each: diamonds and
\* pairs of disjoint cycles
WideNameSeq == <<"A", "B", "C", "D">>

WideNames == {WideNameSeq[i] : i \in DOMAIN WideNameSeq}

ShortDepSeqs ==
  {<<>>} \cup {<<a>> : a \in WideNames}
         \cup {s \in WideNames \X WideNames : s[1] # s[2]}

\* Scenario A: A(1), B(2, deps A), C(3, deps A), D(1, deps B, C)
ScenarioA ==
  TaskSet(<<Task("A", 1, <<>>), Task("B", 2, <<"A">>),
            Task("C", 3, <<"A">>), Task("D", 1, <<"B", "C">>)>>,
          <<"A", "B", "C", "D">>)

\* Lines of a task file: blank, comment, or name, duration and up to two
\* dependency tokens (a name, the sentinel "-", or an empty token)
DepTokens == Names \cup {"", "-"}

TokenSeqs == {<<>>} \cup {<<a>> : a \in DepTokens}
               \cup {<<a, b>> : a \in DepTokens, b \in DepTokens}

Lines ==
  {[kind |-> k, fields |-> <<>>] : k \in {"blank", "comment"}}
    \cup {[kind |-> "task", fields |-> <<n, d>> \o toks]
            : n \in Names, d \in Durations, toks \in TokenSeqs}

Args == {[command |-> "print", plan |-> FALSE]}
          \cup {[command |-> "validate", plan |-> b] : b \in BOOLEAN}

\* -------------------------------------------------------------------- state
VARIABLES
  args,     \* the parsed command line
  pc,       \* position in main, or in the call of a core function
  lineno,   \* lines of the file read so far
  by_name,  \* load_tasks_from_text: the OrderedDict being filled
  order,    \* load_tasks_from_text: the order list being filled
  ts,       \* the TaskSet
  vres,     \* result of validate_tasks
  rres,     \* result of expected_total_runtime
  tres,     \* result of topo_order
  calls,    \* the functions invoked so far, in order
  code      \* the value main returned

vars == <<args, pc, lineno, by_name, order, ts, vres, rres, tres, calls, code>>

NoCode == 0 - 1

NoValidate == [state |-> "uncalled", exc |-> "", errors |-> <<>>]

NoRuntime == [state |-> "uncalled", exc |-> "", makespan |-> 0,
              es |-> NoTimes, ef |-> NoTimes]

NoTopo == [state |-> "uncalled", exc |-> "", order |-> <<>>]

Blank ==
  /\ lineno = 0
  /\ by_name = <<>>
  /\ order = <<>>
  /\ vres = NoValidate
  /\ rres = NoRuntime
  /\ tres = NoTopo
  /\ calls = <<>>
  /\ code = NoCode

\* ------------------------------------------------------------- main (CLI)
Init ==
  /\ args \in Args
  /\ pc = "load"
  /\ ts = TaskSet(<<>>, <<>>)
  /\ Blank

\* one iteration of "for line in fh" in load_tasks_from_text
LoadLine ==
  /\ pc = "load"
  /\ lineno < MaxLines
  /\ \E line \in Lines :
       LET p == parse_task_line(line) IN
       /\ by_name' = IF p.none THEN by_name ELSE Put(by_name, p.task)
       /\ order' = IF p.none THEN order ELSE Append(order, p.task.name)
  /\ lineno' = lineno + 1
  /\ UNCHANGED <<args, pc, ts, vres, rres, tres, calls, code>>

\* end of file: return TaskSet(tasks=dict(by_name), order=order)
LoadDone ==
  /\ pc = "load"
  /\ ts' = TaskSet(by_name, order)
  /\ pc' = args.command
  /\ UNCHANGED <<args, lineno, by_name, order, vres, rres, tres, calls, code>>

\* 'print': iterate the TaskSet in declared order, return 0
PrintTasks ==
  /\ pc = "print"
  /\ \A i \in DOMAIN ts.order : Has(ts.tasks, ts.order[i])
  /\ code' = 0
  /\ pc' = "exit"
  /\ UNCHANGED <<args, lineno, by_name, order, ts, vres, rres, tres, calls>>

\* 'validate': errs = validate_tasks(ts)
Validate ==
  /\ pc = "validate"
  /\ vres' = validate_tasks(ts)
  /\ calls' = Append(calls, "validate_tasks")
  /\ pc' = IF vres'.state = "raised" THEN "crashed" ELSE "validated"
  /\ UNCHANGED <<args, lineno, by_name, order, ts, rres, tres, code>>

\* if errs: ... return 2
ReportErrors ==
  /\ pc = "validated"
  /\ vres.errors # <<>>
  /\ code' = 2
  /\ pc' = "exit"
  /\ UNCHANGED <<args, lineno, by_name, order, ts, vres, rres, tres, calls>>

\* expected, es, ef = expected_total_runtime(ts)
Schedule ==
  /\ pc = "validated"
  /\ vres.errors = <<>>
  /\ rres' = expected_total_runtime(ts)
  /\ calls' = calls \o <<"expected_total_runtime", "topo_order">>
  /\ pc' = IF rres'.state = "raised" THEN "crashed" ELSE "scheduled"
  /\ UNCHANGED <<args, lineno, by_name, order, ts, vres, tres, code>>

\* if args.plan: order = topo_order(ts) ...; return 0
Plan ==
  /\ pc = "scheduled"
  /\ args.plan
  /\ tres' = topo_order(ts)
  /\ calls' = Append(calls, "topo_order")
  /\ pc' = IF tres'.state = "raised" THEN "crashed" ELSE "exit"
  /\ code' = IF tres'.state = "raised" THEN code ELSE 0
  /\ UNCHANGED <<args, lineno, by_name, order, ts, vres, rres>>

NoPlan ==
  /\ pc = "scheduled"
  /\ ~args.plan
  /\ code' = 0
  /\ pc' = "exit"
  /\ UNCHANGED <<args, lineno, by_name, order, ts, vres, rres, tres, calls>>

Next ==
  \/ LoadLine
  \/ LoadDone
  \/ PrintTasks
  \/ Validate
  \/ ReportErrors
  \/ Schedule
  \/ Plan
  \/ NoPlan

Spec == Init /\ [][Next]_vars

\* -------------------------------------------------- the core functions alone
InitCore ==
  /\ args = [command |-> "core", plan |-> FALSE]
  /\ pc = "call"
  /\ \/ \E n \in 0 .. Len(NameSeq) :
          \E f \in [1 .. n -> Durations \X DepSeqs] :
             ts = MkTaskSet(NameSeq, n, f)
     \/ \E f \in [DOMAIN WideNameSeq -> {1} \X ShortDepSeqs] :
          ts = MkTaskSet(WideNameSeq, Len(WideNameSeq), f)
     \/ ts = ScenarioA
  /\ Blank

CallValidate ==
  /\ pc = "call"
  /\ vres' = validate_tasks(ts)
  /\ calls' = <<"validate_tasks">>
  /\ pc' = "done"
  /\ UNCHANGED <<args, lineno, by_name, order, ts, rres, tres, code>>

CallTopoOrder ==
  /\ pc = "call"
  /\ tres' = topo_order(ts)
  /\ calls' = <<"topo_order">>
  /\ pc' = "done"
  /\ UNCHANGED <<args, lineno, by_name, order, ts, vres, rres, code>>

CallRuntime ==
  /\ pc = "call"
  /\ rres' = expected_total_runtime(ts)
  /\ calls' = <<"expected_total_runtime", "topo_order">>
  /\ pc' = "done"
  /\ UNCHANGED <<args, lineno, by_name, order, ts, vres, tres, code>>

NextCore ==
  \/ CallValidate
  \/ CallTopoOrder
  \/ CallRuntime

SpecCore == InitCore /\ [][NextCore]_vars

\* ------------------------------------------------ the dependency graph of ts
TaskNames == Range(Keys(ts.tasks))

DepsOf(n) == Range(Get(ts.tasks, n).deps)

\* the names reached from the frontier along one or more dependency edges
RECURSIVE ReachFrom(_, _)
ReachFrom(frontier, seen) ==
  LET nxt == (UNION {DepsOf(x) : x \in frontier \cap TaskNames}) \ seen IN
  IF nxt = {} THEN seen ELSE ReachFrom(nxt, seen \cup nxt)

Reach(n) == ReachFrom({n}, {})

OnCycle(n) == n \in Reach(n)

HasCycle == \E n \in TaskNames : OnCycle(n)

NoDangling == \A n \in TaskNames : DepsOf(n) \subseteq TaskNames

\* durations >= 0, no dangling dependency, no cycle (a self-dependency is a
\* cycle of one task)
ValidInput ==
  /\ \A i \in DOMAIN ts.tasks : ts.tasks[i].duration_seconds >= 0
  /\ NoDangling
  /\ ~HasCycle

Pos(s, x) == CHOOSE i \in DOMAIN s : s[i] = x

Called(f) == pc = "done" /\ calls[1] = f

\* ----------------------------------------------------------------- claims
\* C1: on a valid task set topo_order returns a permutation of all task
\* names (each exactly once) in which every dependency of a task stands
\* strictly before the task.
C1_TopoOrderIsTopological ==
  (Called("topo_order") /\ ValidInput) =>
    /\ tres.state = "returned"
    /\ Len(tres.order) = Len(ts.tasks)
    /\ NoDup(tres.order)
    /\ Range(tres.order) = TaskNames
    /\ \A t \in TaskNames : \A d \in DepsOf(t) :
         Pos(tres.order, d) < Pos(tres.order, t)

C1_Witness ==
  /\ Called("topo_order")
  /\ ValidInput
  /\ Len(ts.tasks) = 3
  /\ DepsOf("A") = {"B", "C"}
  /\ DepsOf("B") = {"C"}
  /\ tres.order = <<"C", "B", "A">>

\* C6: on a valid task set, diamonds included, validate_tasks returns the
\* empty problem list.
C6_ValidInputHasNoProblems ==
  (Called("validate_tasks") /\ ValidInput) =>
    /\ vres.state = "returned"
    /\ vres.errors = <<>>

C6_Witness ==
  /\ Called("validate_tasks")
  /\ ts = ScenarioA
  /\ vres.state = "returned"
  /\ vres.errors = <<>>

\* C9: without dangling dependencies topo_order returns a sequence with no
\* repeated name, of full length exactly when the graph has no cycle; with a
\* cycle the output is shorter and holds no task that lies on a cycle or
\* transitively depends on one.
C9_TopoOrderOnCycles ==
  (Called("topo_order") /\ NoDangling) =>
    /\ tres.state = "returned"
    /\ NoDup(tres.order)
    /\ Range(tres.order) \subseteq TaskNames
    /\ (Len(tres.order) = Len(ts.tasks)) <=> ~HasCycle
    /\ HasCycle =>
         /\ Len(tres.order) < Len(ts.tasks)
         /\ \A n \in Range(tres.order) :
              /\ ~OnCycle(n)
              /\ \A m \in Reach(n) : ~OnCycle(m)

C9_Witness ==
  /\ Called("topo_order")
  /\ Len(ts.tasks) = 4
  /\ DepsOf("A") = {}
  /\ DepsOf("B") = {"C"}
  /\ DepsOf("C") = {"B"}
  /\ DepsOf("D") = {"A", "B"}
  /\ tres.order = <<"A">>

\* the tasks without dependencies, in declaration order
Sources == SelectSeq(Keys(ts.tasks), LAMBDA n : DepsOf(n) = {})

\* the output position of the dependency of n that is output last: removing
\* that task is what makes n ready
ReadyAt(out, n) == Max({Pos(out, d) : d \in DepsOf(n)})

\* C10: topo_order's output is the order of a strict-FIFO worklist: first
\* the tasks without dependencies in declaration order, then every other
\* task in the order in which it became ready, tasks made ready by the same
\* removal in declaration order; Scenario A gives [A, B, C, D].
C10_TopoOrderIsFifo ==
  (Called("topo_order") /\ tres.state = "returned") =>
    LET out == tres.order
        later == {n \in Range(out) : DepsOf(n) # {}}
    IN /\ Len(out) >= Len(Sources)
       /\ SubSeq(out, 1, Len(Sources)) = Sources
       /\ \A n \in later : DepsOf(n) \subseteq Range(out)
       /\ \A v \in later : \A w \in later \ {v} :
            (\/ ReadyAt(out, v) < ReadyAt(out, w)
             \/ /\ ReadyAt(out, v) = ReadyAt(out, w)
                /\ Pos(Keys(ts.tasks), v) < Pos(Keys(ts.tasks), w))
              => Pos(out, v) < Pos(out, w)
       /\ ts = ScenarioA => out = <<"A", "B", "C", "D">>

\* B and D become ready together when A is removed; C is a source declared
\* after B
C10_Witness ==
  /\ Called("topo_order")
  /\ Len(ts.tasks) = 4
  /\ DepsOf("A") = {}
  /\ DepsOf("B") = {"A"}
  /\ DepsOf("C") = {}
  /\ DepsOf("D") = {"A"}
  /\ tres.order = <<"A", "C", "B", "D">>

CycleReports ==
  {vres.errors[i] : i \in {j \in DOMAIN vres.errors :
                                vres.errors[j].kind = "cycle"}}

\* C2: with no dangling dependency and a self-dependency or cycle present,
\* validate_tasks returns a non-empty problem list holding at least one
\* cycle report, and every cycle report's path starts and ends with the
\* same name.
C2_CycleIsReported ==
  (Called("validate_tasks") /\ NoDangling /\ HasCycle) =>
    /\ vres.state = "returned"
    /\ vres.errors # <<>>
    /\ CycleReports # {}
    /\ \A r \in CycleReports : r.path[1] = r.path[Len(r.path)]

\* C3: when a task t declares a dependency d that is no task of the set,
\* validate_tasks returns, and its problem list holds a dangling-dependency
\* problem naming t and d.
C3_DanglingIsReported ==
  Called("validate_tasks") =>
    \A t \in TaskNames : \A d \in DepsOf(t) \ TaskNames :
      /\ vres.state = "returned"
      /\ \E i \in DOMAIN vres.errors :
           vres.errors[i] = Problem("dangling", t, d, <<>>)

DurationOf(n) == Get(ts.tasks, n).duration_seconds

\* earliest start, earliest finish and makespan satisfy the critical-path
\* equations
CriticalPathEquations ==
  /\ \A n \in TaskNames :
       /\ rres.es[n] = IF DepsOf(n) = {} THEN 0
                        ELSE Max({rres.ef[d] : d \in DepsOf(n)})
       /\ rres.ef[n] = rres.es[n] + DurationOf(n)
  /\ rres.makespan = Max({rres.ef[n] : n \in TaskNames})
  /\ (\A n \in TaskNames : DepsOf(n) = {}) =>
       /\ \A n \in TaskNames : rres.es[n] = 0
       /\ rres.makespan = Max({DurationOf(n) : n \in TaskNames})
  /\ ts = ScenarioA =>
       /\ rres.makespan = 5
       /\ rres.es = [n \in WideNames |->
                       IF n = "A" THEN 0 ELSE IF n = "D" THEN 4 ELSE 1]

\* C4: on every valid task set expected_total_runtime returns earliest
\* starts, earliest finishes and a makespan that satisfy the critical-path
\* equations (start 0 without dependencies, else the largest finish of the
\* dependencies; finish = start + duration; makespan = largest finish).
C4_CriticalPath ==
  (Called("expected_total_runtime") /\ ValidInput) =>
    /\ rres.state = "returned"
    /\ CriticalPathEquations

\* The same on the valid task sets that hold at least one task.
CriticalPathOfNonEmpty ==
  (Called("expected_total_runtime") /\ ValidInput /\ ts.tasks # <<>>) =>
    /\ rres.state = "returned"
    /\ CriticalPathEquations

\* C5: in the 'validate' command validation runs before any scheduling; a
\* non-empty problem list gives return value 2 with no scheduling call, an
\* empty one gives a computed schedule and return value 0, for task sets
\* of any size.
C5_ValidateThenSchedule ==
  /\ calls # <<>> => calls[1] = "validate_tasks"
  /\ (pc \in {"exit", "crashed"} /\ vres.state = "returned") =>
       /\ vres.errors # <<>> =>
            (code = 2 /\ calls = <<"validate_tasks">>)
       /\ vres.errors = <<>> =>
            (code = 0 /\ rres.state = "returned")

\* C7: the loaded TaskSet is consistent: the order sequence has no repeated
\* name, and its names are exactly the keys of the tasks mapping.
C7_TaskSetConsistent ==
  pc \notin {"load", "call", "done"} =>
    /\ NoDup(ts.order)
    /\ Len(ts.order) = Len(ts.tasks)
    /\ Range(ts.order) = TaskNames

\* the simple dependency cycles, each as the sequence of its tasks
SimpleCycles ==
  {p \in UNION {[1 .. k -> TaskNames] : k \in 1 .. Len(ts.tasks)} :
     /\ NoDup(p)
     /\ \A i \in DOMAIN p : p[(i % Len(p)) + 1] \in DepsOf(p[i])}

\* C8: with no dangling dependency and several vertex-disjoint cycles,
\* validate_tasks completes and its problem list holds a cycle report for
\* each of those cycles.
C8_DisjointCyclesReported ==
  (Called("validate_tasks") /\ NoDangling) =>
    \A p \in SimpleCycles : \A q \in SimpleCycles :
      Range(p) \cap Range(q) = {} =>
        /\ vres.state = "returned"
        /\ \E r \in CycleReports : Range(r.path) = Range(p)

====
